---- MODULE Spec2Model ----
(***************************************************************************)
(* yt-sub-rs: the `run` command (cli/bin/cmd/run.rs) and the Video type    *)
(* (core/src/video.rs).                                                    *)
(*                                                                         *)
(* Strings are sequences of one-character strings, so that joining,        *)
(* prefix and substring tests are computed and not assumed.  Instants and  *)
(* durations are whole seconds.                                            *)
(***************************************************************************)
EXTENDS Integers, Sequences, FiniteSets, TLC

VARIABLES
    \* RunArgs::run
    pc,             \* position in run(): "start", "channels", "notifiers",
                    \* "done" (returned), "panicked"; "idle" when run is not called
    hours_offset,   \* RunArgs.hours_offset : Option<u16>
    settings,       \* UserSettings read from the config file
    now,            \* the wall clock, Utc::now(); a run is taken to last
                    \* less than the clock's resolution of one second
    last_run_at,    \* the watermark of this run
    ci,             \* position of `for channel in &settings.channels`, 0 before it
    new_videos,     \* the vector new_videos
    ni,             \* position of `for notifier in &settings.notifiers`, 0 before it
    log,            \* what the Logger has written
    sent,           \* the calls of Notifier::notify made so far
    touched,        \* touch_last_run_at has been called
    result,         \* what run() returned
    \* Video::parse_rss
    rss_data, channel_handle, parsed,
    \* Video::notification_text
    video, notifier, text, time_ago

runVars    == <<pc, hours_offset, settings, last_run_at, ci, new_videos, ni,
                log, sent, touched, result>>
parseVars  == <<rss_data, channel_handle, parsed>>
formatVars == <<video, notifier, text, time_ago>>
vars       == <<runVars, now, parseVars, formatVars>>

----------------------------------------------------------------------------
(* Bounds of the model *)

MaxChannels  == 2   \* configured channels in a run
MaxNotifiers == 2   \* configured notifiers in a run
MaxEntries   == 3   \* <entry> elements of a feed document given to parse_rss

----------------------------------------------------------------------------
(* Option<T> *)

None    == [some |-> FALSE, val |-> <<>>]
Some(v) == [some |-> TRUE, val |-> v]

\* Option<String>::as_deref().unwrap_or("")
UnwrapOrEmpty(o) == IF o.some THEN o.val ELSE <<>>

----------------------------------------------------------------------------
(* Strings *)

StartsWith(s, p) ==
    /\ Len(p) <= Len(s)
    /\ SubSeq(s, 1, Len(p)) = p

EndsWith(s, p) ==
    /\ Len(p) <= Len(s)
    /\ SubSeq(s, Len(s) - Len(p) + 1, Len(s)) = p

\* str::contains
Contains(s, p) ==
    \E k \in 0..(Len(s) - Len(p)) : SubSeq(s, k + 1, k + Len(p)) = p

\* [String]::join(sep)
RECURSIVE Join(_, _)
Join(parts, sep) ==
    IF Len(parts) = 0 THEN <<>>
    ELSE IF Len(parts) = 1 THEN parts[1]
    ELSE parts[1] \o sep \o Join(Tail(parts), sep)

Digit(d) == <<"0", "1", "2", "3", "4", "5", "6", "7", "8", "9">>[d + 1]

\* format!("{}", n) of an i64
RECURSIVE Decimal(_)
Decimal(n) ==
    IF n < 0 THEN <<"-">> \o Decimal(-n)
    ELSE IF n < 10 THEN <<Digit(n)>>
    ELSE Decimal(n \div 10) \o <<Digit(n % 10)>>

\* i64 division, which truncates toward zero
TruncDiv(a, b) == IF a >= 0 THEN a \div b ELSE -((-a) \div b)

\* chrono::Duration::num_hours, num_minutes of a duration of d seconds
NumHours(d)   == TruncDiv(d, 3600)
NumMinutes(d) == TruncDiv(d, 60)

StrJustNow    == <<"j","u","s","t"," ","n","o","w">>
StrOneHour    == <<"1"," ","h","o","u","r"," ","a","g","o">>
StrHoursAgo   == <<" ","h","o","u","r","s"," ","a","g","o">>
StrOneMinute  == <<"1"," ","m","i","n","u","t","e"," ","a","g","o">>
StrMinutesAgo == <<" ","m","i","n","u","t","e","s"," ","a","g","o">>
StrNewVideo   == <<"N","e","w"," ","v","i","d","e","o"," ","-">>

----------------------------------------------------------------------------
(* Video::format_time_ago, with the clock reading `at` *)

format_time_ago_minutes_first(v, at) ==
    LET duration == at - v.published_at
    IN  IF NumMinutes(duration) > 0
        THEN IF NumMinutes(duration) = 1 THEN StrOneMinute
             ELSE Decimal(NumMinutes(duration)) \o StrMinutesAgo
        ELSE IF NumHours(duration) > 0
        THEN IF NumHours(duration) = 1 THEN StrOneHour
             ELSE Decimal(NumHours(duration)) \o StrHoursAgo
        ELSE StrJustNow

format_time_ago(v, at) ==
    LET duration == at - v.published_at
    IN  IF NumHours(duration) > 0
        THEN IF NumHours(duration) = 1 THEN StrOneHour
             ELSE Decimal(NumHours(duration)) \o StrHoursAgo
        ELSE IF NumMinutes(duration) > 0
        THEN IF NumMinutes(duration) = 1 THEN StrOneMinute
             ELSE Decimal(NumMinutes(duration)) \o StrMinutesAgo
        ELSE StrJustNow

----------------------------------------------------------------------------
(* Video::notification_text *)

Notifiers == {"Log", "Slack", "Telegram"}

\* the vector `parts` of the Log arm
LogParts_always_handle(v, phrase) ==
    <<  <<"-">>,
        UnwrapOrEmpty(v.channel_handle),
        <<"[">> \o v.title \o <<"]", "(">> \o v.link \o <<")">>,
        <<"-", " ">> \o phrase  >>

LogParts(v, phrase) ==
    LET handle == UnwrapOrEmpty(v.channel_handle)
    IN  <<  <<"-">>  >>
        \o (IF handle # <<>> THEN <<handle>> ELSE <<>>)
        \o <<  <<"[">> \o v.title \o <<"]", "(">> \o v.link \o <<")">>  >>
        \o (IF phrase # <<>> THEN <<  <<"-", " ">> \o phrase  >> ELSE <<>>)

\* the Slack arm
SlackText(v) ==
    <<"*">> \o StrNewVideo \o <<" ">> \o v.channel \o <<"*", " ", "<">>
        \o v.link \o <<"|">> \o v.title \o <<">">>

\* [kind |-> "Ok", text |-> ...], or [kind |-> "Panic"] for todo!()
notification_text(v, n, at) ==
    LET phrase == format_time_ago(v, at)
    IN  CASE n = "Log"      -> [kind |-> "Ok", text |-> Join(LogParts(v, phrase), <<" ">>)]
          [] n = "Slack"    -> [kind |-> "Ok", text |-> SlackText(v)]
          [] n = "Telegram" -> [kind |-> "Panic", text |-> <<>>]

----------------------------------------------------------------------------
(* Feed documents.  A document is the XML text of a channel feed, kept as   *)
(* its element tree: whether it is XML at all, the <author><name> of the   *)
(* feed, and its <entry> elements.  An element that is missing is None.    *)
(* <published> holds either an RFC 3339 text of an instant or other text.  *)

ChannelName == <<"C">>

Published(t) == [rfc3339 |-> TRUE, instant |-> t]
Garbled      == [rfc3339 |-> FALSE, instant |-> 0]

Entry(title, published, link) ==
    [title |-> title, published |-> published, link |-> link]

Document(author, entries) ==
    [xml |-> TRUE, author |-> author, entries |-> entries]

NotXml == [xml |-> FALSE, author |-> None, entries |-> <<>>]

\* serde_json::Value
JNull       == [type |-> "null"]
JString(s)  == [type |-> "string", str |-> s]
JObject(o)  == [type |-> "object", obj |-> o]
JArray(a)   == [type |-> "array", items |-> a]

\* Value::as_str, Value::as_array
as_str(j)   == IF j.type = "string" THEN Some(j.str) ELSE None
as_array(j) == IF j.type = "array" THEN Some(j.items) ELSE None

JOpt(o) == IF o.some THEN JString(o.val) ELSE JNull

EntryJson(e) ==
    JObject([title     |-> JOpt(e.title),
             published |-> JOpt(e.published),
             link      |-> JOpt(e.link)])

\* xmltojson::to_json: child elements of one name become one member, an
\* object when the name occurs once and an array when it occurs repeatedly.
\* The result is the pair json["feed"]["author"]["name"], json["feed"]["entry"].
to_json(doc) ==
    IF ~doc.xml THEN [kind |-> "Err"]
    ELSE [kind   |-> "Ok",
          author |-> JOpt(doc.author),
          entry  |-> IF Len(doc.entries) = 0 THEN JNull
                     ELSE IF Len(doc.entries) = 1 THEN EntryJson(doc.entries[1])
                     ELSE JArray([k \in 1..Len(doc.entries) |-> EntryJson(doc.entries[k])])]

\* str::parse::<DateTime<Utc>>
ParseDateTime(s) ==
    IF s.rfc3339 THEN [kind |-> "Ok", instant |-> s.instant] ELSE [kind |-> "Err"]

Panic == [kind |-> "Panic", videos |-> <<>>]
Ok(videos) == [kind |-> "Ok", videos |-> videos]
Err == [kind |-> "Err", videos |-> <<>>]

\* the body of `for video_data in videos_data`: a Video, or a panic of one
\* of the unwrap/expect calls
VideoOf(video_data, channel, handle) ==
    LET title     == as_str(video_data.obj.title)
        published == as_str(video_data.obj.published)
        link      == as_str(video_data.obj.link)
    IN  IF ~title.some \/ ~published.some THEN Panic
        ELSE IF ParseDateTime(published.val).kind # "Ok" THEN Panic
        ELSE IF ~link.some THEN Panic
        ELSE Ok(<<[channel        |-> channel,
                   channel_handle |-> handle,
                   title          |-> title.val,
                   link           |-> link.val,
                   published_at   |-> ParseDateTime(published.val).instant]>>)

RECURSIVE ParseEntries(_, _, _)
ParseEntries(videos_data, channel, handle) ==
    IF Len(videos_data) = 0 THEN Ok(<<>>)
    ELSE LET first == VideoOf(videos_data[1], channel, handle)
         IN  IF first.kind = "Panic" THEN Panic
             ELSE LET rest == ParseEntries(Tail(videos_data), channel, handle)
                  IN  IF rest.kind = "Panic" THEN Panic
                      ELSE Ok(first.videos \o rest.videos)

\* Video::parse_rss: Ok(videos), or a panic
parse_rss(data, handle) ==
    LET json == to_json(data)
    IN  IF json.kind # "Ok" THEN Panic
        ELSE IF ~as_str(json.author).some THEN Panic
        ELSE LET videos_data == as_array(json.entry)
             IN  IF ~videos_data.some THEN Ok(<<>>)
                 ELSE ParseEntries(videos_data.val, as_str(json.author).val, handle)

----------------------------------------------------------------------------
(* Video::parse_rss applied to a feed document *)

Unset == [kind |-> "None"]

WellFormedEntries ==
    { Entry(Some(<<"A">>), Some(Published(1)), Some(<<"u">>)),
      Entry(Some(<<"B">>), Some(Published(2)), Some(<<"v">>)) }

MalformedEntries ==
    { Entry(None, Some(Published(1)), Some(<<"u">>)),
      Entry(Some(<<"A">>), None, Some(<<"u">>)),
      Entry(Some(<<"A">>), Some(Garbled), Some(<<"u">>)),
      Entry(Some(<<"A">>), Some(Published(1)), None) }

EntryLists ==
    UNION { [1..n -> WellFormedEntries \cup MalformedEntries] : n \in 0..MaxEntries }

ParseDocuments ==
    {NotXml} \cup { Document(a, es) : a \in {None, Some(ChannelName)}, es \in EntryLists }

Handles == { None, Some(<<>>), Some(<<"@", "a">>) }

IdleRun ==
    /\ pc = "idle"
    /\ hours_offset = None
    /\ settings = [channels |-> <<>>, notifiers |-> <<>>, last_run_at |-> 0]
    /\ last_run_at = 0
    /\ ci = 0
    /\ new_videos = <<>>
    /\ ni = 0
    /\ log = <<>>
    /\ sent = <<>>
    /\ touched = FALSE
    /\ result = "None"

IdleParse ==
    /\ rss_data = NotXml
    /\ channel_handle = None
    /\ parsed = Unset

IdleFormat ==
    /\ video = Unset
    /\ notifier = "Log"
    /\ text = Unset
    /\ time_ago = <<>>

InitParse ==
    /\ rss_data \in ParseDocuments
    /\ channel_handle \in Handles
    /\ parsed = Unset
    /\ now = 0
    /\ IdleRun
    /\ IdleFormat

Parse ==
    /\ parsed = Unset
    /\ parsed' = parse_rss(rss_data, channel_handle)
    /\ UNCHANGED <<rss_data, channel_handle, runVars, now, formatVars>>

NextParse == Parse

SpecParse == InitParse /\ [][NextParse]_vars

----------------------------------------------------------------------------
(* Video::notification_text applied to a video *)

Titles == { <<"T">>, <<"a", " ", "b">>, StrNewVideo \o <<" ", "T">> }

Links == { <<"u">> }

\* seconds between published_at and the clock; negative when the feed's
\* timestamp is ahead of the clock
Elapsed ==
    (0..61) \cup {-3600, -60, -1, 119, 120, 3599, 3600, 3601, 5400, 7199, 7200, 90000}

FormatVideos ==
    { [channel        |-> ChannelName,
       channel_handle |-> h,
       title          |-> t,
       link           |-> l,
       published_at   |-> 5000] : h \in Handles, t \in Titles, l \in Links }

InitFormat ==
    /\ video \in FormatVideos
    /\ notifier \in Notifiers
    /\ now \in { video.published_at + e : e \in Elapsed }
    /\ text = Unset
    /\ time_ago = <<>>
    /\ IdleRun
    /\ IdleParse

Format ==
    /\ text = Unset
    /\ time_ago' = format_time_ago(video, now)
    /\ text' = notification_text(video, notifier, now)
    /\ UNCHANGED <<video, notifier, now, runVars, parseVars>>

NextFormat == Format

SpecFormat == InitFormat /\ [][NextFormat]_vars

----------------------------------------------------------------------------
(* RunArgs::run *)

\* A configured channel together with what its feed URL serves during the
\* run: a transport error, or a feed document.
Channel(handle, remote) == [handle |-> handle, remote |-> remote]

FetchErr    == [kind |-> "Err", body |-> NotXml]
FetchOk(d)  == [kind |-> "Ok", body |-> d]

\* Channel::get_fresh_videos: fetch the feed, parse it, keep the videos
\* published after the watermark
get_fresh_videos(channel, watermark) ==
    IF channel.remote.kind = "Err" THEN Err
    ELSE LET p == parse_rss(channel.remote.body, channel.handle)
             fresh(v) == v.published_at > watermark
         IN  IF p.kind = "Panic" THEN Panic
             ELSE Ok(SelectSeq(p.videos, fresh))

\* Vec::extend
extend_overwrite(acc, videos) == videos

extend(acc, videos) == acc \o videos

\* Vec::is_empty
is_empty_never(v) == FALSE

is_empty(v) == Len(v) = 0

\* Ord::cmp
Cmp(x, y) == IF x < y THEN "Less" ELSE IF x = y THEN "Equal" ELSE "Greater"

\* the closure |a, b| b.published_at.cmp(&a.published_at)
compare_oldest_first(a, b) == Cmp(a.published_at, b.published_at)

compare(a, b) == Cmp(b.published_at, a.published_at)

\* slice::sort_by, a stable sort: each element in turn moves left past the
\* elements it compares Less than
RECURSIVE InsertTail(_, _)
InsertTail(s, x) ==
    IF Len(s) = 0 THEN <<x>>
    ELSE IF compare(x, s[Len(s)]) = "Less"
         THEN Append(InsertTail(SubSeq(s, 1, Len(s) - 1), x), s[Len(s)])
         ELSE Append(s, x)

RECURSIVE sort_by(_)
sort_by(v) ==
    IF Len(v) = 0 THEN <<>>
    ELSE InsertTail(sort_by(SubSeq(v, 1, Len(v) - 1)), v[Len(v)])

\* The instants of the runs checked: the clock at the start, and the
\* publication instants 25 hours, 90 minutes and 30 seconds before it.
StartTimes == {100000}

FeedA ==
    Document(Some(<<"C">>),
             << Entry(Some(<<"A">>), Some(Published(94600)), Some(<<"u">>)),
                Entry(Some(<<"B">>), Some(Published(99970)), Some(<<"v">>)) >>)

FeedB ==
    Document(Some(<<"D">>),
             << Entry(Some(<<"X">>), Some(Published(99970)), Some(<<"x">>)),
                Entry(Some(<<"Y">>), Some(Published(10000)), Some(<<"y">>)),
                Entry(Some(<<"Z">>), Some(Published(99970)), Some(<<"z">>)) >>)

FeedEmpty == Document(Some(<<"E">>), <<>>)

FeedOne ==
    Document(Some(<<"F">>),
             << Entry(Some(<<"S">>), Some(Published(99970)), Some(<<"s">>)) >>)

FeedBad ==
    Document(Some(<<"G">>),
             << Entry(Some(<<"P">>), Some(Published(99970)), Some(<<"p">>)),
                Entry(None, Some(Published(99970)), Some(<<"q">>)) >>)

Channels ==
    { Channel(Some(<<"@", "a">>), FetchOk(FeedA)),
      Channel(None, FetchOk(FeedB)),
      Channel(Some(<<>>), FetchOk(FeedEmpty)),
      Channel(Some(<<"@", "f">>), FetchOk(FeedOne)),
      Channel(Some(<<"@", "g">>), FetchOk(FeedBad)),
      Channel(Some(<<"@", "e">>), FetchErr) }

ChannelLists  == UNION { [1..n -> Channels] : n \in 0..MaxChannels }
NotifierLists == UNION { [1..n -> Notifiers] : n \in 0..MaxNotifiers }

Init ==
    /\ pc = "start"
    /\ hours_offset \in {None, Some(26)}
    /\ settings \in [channels : ChannelLists, notifiers : NotifierLists,
                     last_run_at : {94600}]
    /\ now \in StartTimes
    /\ last_run_at = 0
    /\ ci = 0
    /\ new_videos = <<>>
    /\ ni = 0
    /\ log = <<>>
    /\ sent = <<>>
    /\ touched = FALSE
    /\ result = "None"
    /\ IdleParse
    /\ IdleFormat

ErrorLine(what, k) == [level |-> "error", msg |-> what, idx |-> k]
InfoLine(what)     == [level |-> "info", msg |-> what, idx |-> 0]

\* UserSettings::read(config)? returns an error
ReadSettingsFails ==
    /\ pc = "start"
    /\ pc' = "done"
    /\ result' = "ErrRead"
    /\ UNCHANGED <<hours_offset, settings, now, last_run_at, ci, new_videos, ni,
                   log, sent, touched, parseVars, formatVars>>

\* lines 32-40: the settings are read and the watermark is chosen
ReadSettings ==
    /\ pc = "start"
    /\ last_run_at' = IF hours_offset.some
                      THEN now - 3600 * hours_offset.val
                      ELSE settings.last_run_at
    /\ new_videos' = <<>>
    /\ ci' = 1
    /\ pc' = "channels"
    /\ UNCHANGED <<hours_offset, settings, now, ni, log, sent, touched, result,
                   parseVars, formatVars>>

\* lines 42-51: one turn of the loop over the channels
FetchChannel ==
    /\ pc = "channels"
    /\ ci <= Len(settings.channels)
    /\ LET r == get_fresh_videos(settings.channels[ci], last_run_at)
       IN  CASE r.kind = "Ok" ->
                  /\ new_videos' = extend(new_videos, r.videos)
                  /\ UNCHANGED <<log, pc>>
             [] r.kind = "Err" ->
                  /\ log' = Append(log, ErrorLine("channel", ci))
                  /\ UNCHANGED <<new_videos, pc>>
             [] r.kind = "Panic" ->
                  /\ pc' = "panicked"
                  /\ UNCHANGED <<new_videos, log>>
    /\ ci' = ci + 1
    /\ UNCHANGED <<hours_offset, settings, now, last_run_at, ni, sent, touched,
                   result, parseVars, formatVars>>

\* lines 53-56: nothing was collected
NoNewVideos ==
    /\ pc = "channels"
    /\ ci > Len(settings.channels)
    /\ is_empty(new_videos)
    /\ log' = Append(log, InfoLine("No new videos found."))
    /\ result' = "Ok"
    /\ pc' = "done"
    /\ UNCHANGED <<hours_offset, settings, now, last_run_at, ci, new_videos, ni,
                   sent, touched, parseVars, formatVars>>

\* lines 58-59: the collected videos are sorted, newest first
SortVideos ==
    /\ pc = "channels"
    /\ ci > Len(settings.channels)
    /\ ~is_empty(new_videos)
    /\ new_videos' = sort_by(new_videos)
    /\ ni' = 1
    /\ pc' = "notifiers"
    /\ UNCHANGED <<hours_offset, settings, now, last_run_at, ci, log, sent,
                   touched, result, parseVars, formatVars>>

\* Notifier::notify: the transport delivers or fails
NotifyOutcomes == {"Ok", "Err"}

\* lines 61-73: one turn of the loop over the notifiers.  The cron flag is
\* handed to notify unread and is left out.
Notify ==
    /\ pc = "notifiers"
    /\ ni <= Len(settings.notifiers)
    /\ LET n == settings.notifiers[ni]
           notifications ==
               [k \in 1..Len(new_videos) |-> notification_text(new_videos[k], n, now)]
       IN  IF \E k \in 1..Len(new_videos) : notifications[k].kind = "Panic"
           THEN /\ pc' = "panicked"
                /\ UNCHANGED <<sent, log>>
           ELSE \E outcome \in NotifyOutcomes :
                /\ sent' = Append(sent,
                       [notifier |-> ni,
                        texts    |-> [k \in 1..Len(new_videos) |-> notifications[k].text],
                        at       |-> now,
                        outcome  |-> outcome])
                /\ log' = IF outcome = "Err"
                          THEN Append(log, ErrorLine("notifier", ni))
                          ELSE log
                /\ pc' = pc
    /\ ni' = ni + 1
    /\ UNCHANGED <<hours_offset, settings, now, last_run_at, ci, new_videos,
                   touched, result, parseVars, formatVars>>

\* settings.touch_last_run_at(): the watermark is written, or the write fails
TouchOutcomes == {"Ok", "ErrTouch"}

TouchLastRunAt_inside_loop ==
    /\ pc = "notifiers"
    /\ touched' = TRUE
    /\ \E outcome \in TouchOutcomes : result' = outcome
    /\ pc' = "done"
    /\ UNCHANGED <<hours_offset, settings, now, last_run_at, ci, new_videos, ni,
                   log, sent, parseVars, formatVars>>

\* lines 75-77: after the loop over the notifiers
TouchLastRunAt ==
    /\ pc = "notifiers"
    /\ ni > Len(settings.notifiers)
    /\ touched' = TRUE
    /\ \E outcome \in TouchOutcomes : result' = outcome
    /\ pc' = "done"
    /\ UNCHANGED <<hours_offset, settings, now, last_run_at, ci, new_videos, ni,
                   log, sent, parseVars, formatVars>>

Next ==
    \/ ReadSettingsFails
    \/ ReadSettings
    \/ FetchChannel
    \/ NoNewVideos
    \/ SortVideos
    \/ Notify
    \/ TouchLastRunAt

Spec == Init /\ [][Next]_vars

----------------------------------------------------------------------------
(* Vocabulary of the properties *)

Range(s) == { s[k] : k \in 1..Len(s) }

Count(s, x) == Cardinality({ k \in 1..Len(s) : s[k] = x })

SameItems(s, t) ==
    /\ Len(s) = Len(t)
    /\ \A x \in Range(s) \cup Range(t) : Count(s, x) = Count(t, x)

\* what get_fresh_videos returns for the k-th configured channel
Fresh(k) == get_fresh_videos(settings.channels[k], last_run_at)

\* the results of channels 1..k that returned Ok, one after the other
RECURSIVE OkResults(_)
OkResults(k) ==
    IF k = 0 THEN <<>>
    ELSE OkResults(k - 1) \o (IF Fresh(k).kind = "Ok" THEN Fresh(k).videos ELSE <<>>)

\* the channels among 1..k that returned an error, in order
RECURSIVE ErrChannels(_)
ErrChannels(k) ==
    IF k = 0 THEN <<>>
    ELSE ErrChannels(k - 1) \o (IF Fresh(k).kind = "Err" THEN <<k>> ELSE <<>>)

\* the channels the log reports an error for, in order
LoggedChannels ==
    LET isChannel(l) == l.level = "error" /\ l.msg = "channel"
        lines == SelectSeq(log, isChannel)
    IN  [k \in 1..Len(lines) |-> lines[k].idx]

NumChannels  == Len(settings.channels)
NumNotifiers == Len(settings.notifiers)

\* the loop over the channels has been left without a panic
ChannelsDone ==
    \/ pc \in {"notifiers", "done"} /\ ci > 0
    \/ pc = "panicked" /\ ni > 0

\* the run has ended, by returning or by panicking
Ended == pc \in {"done", "panicked"}

----------------------------------------------------------------------------
(* C1.  A channel whose get_fresh_videos returns an error is logged, adds  *)
(* nothing, and does not stop the loop: while the loop runs, new_videos is *)
(* the concatenation in channel order of the Ok results so far and the log *)
(* names exactly the channels that failed; the loop is left only after the *)
(* last channel, with exactly the items of the channels that returned Ok.  *)
C1_ErrorsSkipped ==
    ci > 0 =>
        /\ LoggedChannels = ErrChannels(ci - 1)
        /\ pc = "channels" => new_videos = OkResults(ci - 1)
        /\ ChannelsDone =>
              /\ ci = NumChannels + 1
              /\ SameItems(new_videos, OkResults(NumChannels))

C1_Witness ==
    /\ pc = "notifiers"
    /\ \E k \in 1..NumChannels : \E j \in (k + 1)..NumChannels :
          /\ Fresh(k).kind = "Err"
          /\ Fresh(j).kind = "Ok"
          /\ Fresh(j).videos # <<>>
    /\ new_videos # <<>>

----------------------------------------------------------------------------
(* C2.  parse_rss, given a document that is not a feed, or one with an     *)
(* entry lacking a title, a link or a parseable published timestamp,       *)
(* returns an error value: neither a panic nor a list of videos.           *)
EntryMalformed(e) ==
    \/ ~e.title.some
    \/ ~e.link.some
    \/ ~e.published.some
    \/ e.published.some /\ ~e.published.val.rfc3339

Malformed(doc) ==
    \/ ~doc.xml
    \/ \E k \in 1..Len(doc.entries) : EntryMalformed(doc.entries[k])

C2_MalformedIsError ==
    (parsed # Unset /\ Malformed(rss_data)) => parsed.kind = "Err"

----------------------------------------------------------------------------
(* C3.  With Notifier::Telegram among the notifiers and at least one fresh *)
(* video, the run does not crash: it ends by returning, an error is logged *)
(* for the Telegram notifier, and every other notifier is notified.        *)
C3_TelegramIsolated ==
    (/\ Ended
     /\ ChannelsDone
     /\ new_videos # <<>>
     /\ \E k \in 1..NumNotifiers : settings.notifiers[k] = "Telegram")
    => /\ pc = "done"
       /\ \A k \in 1..NumNotifiers :
             IF settings.notifiers[k] = "Telegram"
             THEN ErrorLine("notifier", k) \in Range(log)
             ELSE \E c \in 1..Len(sent) : sent[c].notifier = k

----------------------------------------------------------------------------
(* C4.  In a run that collected at least one video, notify is called once  *)
(* for every configured notifier, in configuration order, whichever calls  *)
(* fail; touch_last_run_at and the return come after the last of them.     *)
C4_EverySinkOnce ==
    /\ (ChannelsDone /\ new_videos # <<>>) =>
          /\ Len(sent) = ni - 1
          /\ \A c \in 1..Len(sent) : sent[c].notifier = c
    /\ (Ended /\ ChannelsDone /\ new_videos # <<>>) => Len(sent) = NumNotifiers
    /\ touched => Len(sent) = NumNotifiers

----------------------------------------------------------------------------
(* C5.  When the loop over the channels has ended and nothing was          *)
(* collected, the run has logged "No new videos found.", has returned Ok,  *)
(* and no notifier was called (nor the watermark written).                 *)
C5_NothingNew ==
    (ChannelsDone /\ new_videos = <<>>) =>
        /\ pc = "done"
        /\ result = "Ok"
        /\ log # <<>>
        /\ log[Len(log)] = InfoLine("No new videos found.")
        /\ sent = <<>>
        /\ ~touched

C5_Witness ==
    /\ pc = "done"
    /\ ci > 0
    /\ new_videos = <<>>
    /\ NumNotifiers > 0
    /\ \E k \in 1..NumChannels : Fresh(k).kind = "Err"
    /\ \E k \in 1..NumChannels : Fresh(k).kind = "Ok"

----------------------------------------------------------------------------
(* C6.  Once sorted, new_videos holds the collected videos newest first,   *)
(* videos of one published_at in the order they were collected; every      *)
(* notify call was given one text per video, in that order.                *)
PublishedAt(s) == { s[k].published_at : k \in 1..Len(s) }

At(s, t) == LET at(v) == v.published_at = t IN SelectSeq(s, at)

StableNewestFirst(s, collected) ==
    /\ Len(s) = Len(collected)
    /\ \A k \in 1..(Len(s) - 1) : s[k].published_at >= s[k + 1].published_at
    /\ \A t \in PublishedAt(s) \cup PublishedAt(collected) : At(s, t) = At(collected, t)

C6_StableNewestFirst ==
    ChannelsDone =>
        /\ StableNewestFirst(new_videos, OkResults(NumChannels))
        /\ \A c \in 1..Len(sent) :
              /\ Len(sent[c].texts) = Len(new_videos)
              /\ \A k \in 1..Len(new_videos) :
                    sent[c].texts[k] =
                        notification_text(new_videos[k],
                                          settings.notifiers[sent[c].notifier],
                                          sent[c].at).text

C6_Witness ==
    /\ pc = "done"
    /\ Len(sent) >= 2
    /\ new_videos # OkResults(NumChannels)
    /\ \E j \in 1..Len(new_videos) : \E k \in (j + 1)..Len(new_videos) :
          /\ new_videos[j].published_at = new_videos[k].published_at
          /\ new_videos[j].channel # new_videos[k].channel

----------------------------------------------------------------------------
(* C7.  For a feed document of N well-formed entries, N >= 0, parse_rss    *)
(* returns Ok with N videos in feed order, each with the feed's channel    *)
(* name and the handle supplied.                                           *)
WellFormed(doc) ==
    /\ doc.xml
    /\ doc.author.some
    /\ \A k \in 1..Len(doc.entries) : ~EntryMalformed(doc.entries[k])

C7_OneVideoPerEntry ==
    (parsed # Unset /\ WellFormed(rss_data)) =>
        /\ parsed.kind = "Ok"
        /\ Len(parsed.videos) = Len(rss_data.entries)
        /\ \A k \in 1..Len(parsed.videos) :
              /\ parsed.videos[k].title = rss_data.entries[k].title.val
              /\ parsed.videos[k].link = rss_data.entries[k].link.val
              /\ parsed.videos[k].published_at = rss_data.entries[k].published.val.instant
              /\ parsed.videos[k].channel = rss_data.author.val
              /\ parsed.videos[k].channel_handle = channel_handle

----------------------------------------------------------------------------
(* C8.  As claimed: the watermark is written only in a run without         *)
(* failure, so touch_last_run_at is not called in a run where a notify     *)
(* call or a channel's fetch returned an error.                            *)
NoFailure ==
    /\ \A c \in 1..Len(sent) : sent[c].outcome = "Ok"
    /\ \A k \in 1..Len(log) : log[k].level # "error"

C8_TouchOnlyWithoutFailure == touched => NoFailure

(* C8, amended.  touch_last_run_at is called only at the end of a run that *)
(* collected at least one fresh video, after every channel was tried and   *)
(* notify was called for every notifier, whether or not a fetch or a       *)
(* notify call returned an error; a run that returns from the notifier     *)
(* loop has always called it.  It is not called when nothing was           *)
(* collected or when the run panics.                                       *)
C8_TouchAfterAllSinks ==
    /\ touched =>
          /\ pc = "done"
          /\ new_videos # <<>>
          /\ ci = NumChannels + 1
          /\ ni = NumNotifiers + 1
          /\ Len(sent) = NumNotifiers
    /\ (pc = "done" /\ ni > 0) => touched
    /\ (pc = "panicked" \/ new_videos = <<>>) => ~touched

C8_Witness ==
    /\ touched
    /\ \E c \in 1..Len(sent) : sent[c].outcome = "Err"
    /\ \E k \in 1..Len(log) : log[k] = ErrorLine("channel", log[k].idx)

----------------------------------------------------------------------------
(* C9.  As claimed: the phrase of format_time_ago is "just now" for 0 to   *)
(* 59 seconds, "1 minute ago" for one minute, "90 minutes ago" for 90      *)
(* minutes, "1 hour ago" for one hour, "25 hours ago" for 25 hours.        *)
ElapsedSeconds == now - video.published_at

Str90Minutes == <<"9","0"," ","m","i","n","u","t","e","s"," ","a","g","o">>
Str25Hours   == <<"2","5"," ","h","o","u","r","s"," ","a","g","o">>

C9_PhraseTable ==
    text # Unset =>
        /\ ElapsedSeconds \in 0..59 => time_ago = StrJustNow
        /\ ElapsedSeconds = 60 => time_ago = StrOneMinute
        /\ ElapsedSeconds = 5400 => time_ago = Str90Minutes
        /\ ElapsedSeconds = 3600 => time_ago = StrOneHour
        /\ ElapsedSeconds = 90000 => time_ago = Str25Hours

(* C9, amended.  The same, but 90 minutes give "1 hour ago": the hours     *)
(* are tested first, and minutes are shown only below one hour.            *)
C9_PhraseTableHoursFirst ==
    text # Unset =>
        /\ ElapsedSeconds \in 0..59 => time_ago = StrJustNow
        /\ ElapsedSeconds = 60 => time_ago = StrOneMinute
        /\ ElapsedSeconds = 5400 => time_ago = StrOneHour
        /\ ElapsedSeconds = 3600 => time_ago = StrOneHour
        /\ ElapsedSeconds = 90000 => time_ago = Str25Hours

C9_Witness == text # Unset /\ ElapsedSeconds = 5400 /\ time_ago = StrOneHour

----------------------------------------------------------------------------
(* C10.  As claimed: the Log text is "-", the handle when present and not  *)
(* empty, "[title](link)" and "- <phrase>" joined by single spaces; it     *)
(* contains [title](link), starts with "- <handle> " when there is a       *)
(* handle, has no doubled separator or empty segment when there is none,   *)
(* and never contains "New video -".                                       *)
Sp == <<" ">>

LinkPair(v) == <<"[">> \o v.title \o <<"]", "(">> \o v.link \o <<")">>

HandleOf(v) == IF v.channel_handle.some THEN v.channel_handle.val ELSE <<>>

LogShape ==
    LET t == text.text
        h == HandleOf(video)
    IN  /\ text.kind = "Ok"
        /\ Contains(t, LinkPair(video))
        /\ h # <<>> => StartsWith(t, <<"-">> \o Sp \o h \o Sp \o LinkPair(video))
        /\ h = <<>> => StartsWith(t, <<"-">> \o Sp \o LinkPair(video))
        /\ EndsWith(t, LinkPair(video) \o Sp \o <<"-">> \o Sp \o time_ago)
        /\ (\A f \in {h, video.title, video.link} : ~Contains(f, Sp \o Sp))
              => ~Contains(t, Sp \o Sp)

C10_LogNeverLeadIn ==
    (text # Unset /\ notifier = "Log") =>
        /\ LogShape
        /\ ~Contains(text.text, StrNewVideo)

(* C10, amended.  The same, but "New video -" is absent from the Log text  *)
(* only as far as the handle, the title and the link do not contain it:    *)
(* the text contains it exactly when one of them does.                     *)
C10_LogLeadInOnlyFromFields ==
    (text # Unset /\ notifier = "Log") =>
        /\ LogShape
        /\ Contains(text.text, StrNewVideo) <=>
              \E f \in {HandleOf(video), video.title, video.link} :
                  Contains(f, StrNewVideo)

C10_Witness ==
    /\ text # Unset
    /\ notifier = "Log"
    /\ video.channel_handle = Some(<<>>)
    /\ Contains(video.title, StrNewVideo)
    /\ Contains(text.text, StrNewVideo)

====
